---- MODULE Spec2Model ----
(***************************************************************************)
(* Server side of the Prio-style verification and accumulation protocol   *)
(* of src/src/server.rs.  Vectors are functions over 0..len-1 so that the  *)
(* indices are the ones the Rust code uses.                                *)
(***************************************************************************)
EXTENDS Integers, Sequences, FiniteSets, TLC

VARIABLES
    dimension,  \* the dimension every Server of the run is created with
    srv,        \* the Servers: accumulator, role, key and validation memory
    pc,         \* the position of each Server's caller
    last,       \* the last call: its inputs and what it returned
    calls,      \* number of calls made on the Server
    hist,       \* the decoded shares of the aggregate calls that returned Ok(true)
    cur,        \* the client submission in flight
    msgs,       \* the verification messages generated for it
    done,       \* the Servers that have aggregated it
    clients,    \* number of submissions taken
    truth,      \* the data vectors of the submissions found valid
    validation_mem, \* the ValidationMemory of the validation test
    point,      \* the challenge point of the validation test
    phase,      \* the position of the validation test
    accepted,   \* the challenge points at which the submission was found valid
    read        \* what the first total_shares call on each Server returned

vars == <<dimension, srv, pc, last, calls, hist, cur, msgs, done, clients, truth,
          validation_mem, point, phase, accepted, read>>

(***************************************************************************)
(* Bounds of the model.                                                    *)
(***************************************************************************)
\* largest dimension a Server is created with
MaxDim == 2
\* number of generate/aggregate/total_shares/choose_eval_at calls on one Server
MaxCalls == 2
\* number of client submissions in the two-server and the worker runs
MaxClients == 2

(***************************************************************************)
(* finite_field: the field of the crate is a prime field with two-adic     *)
(* roots of unity; the model keeps the structure over a small prime.       *)
(***************************************************************************)
Modulus == 17
\* a generator of the multiplicative group, as finite_field's generator
Generator == 3

Field == 0..(Modulus - 1)

FAdd(a, b) == (a + b) % Modulus
FSub(a, b) == (a + Modulus - b) % Modulus
FMul(a, b) == (a * b) % Modulus
\* Field::from(u32): reduction of the integer into the field
FieldFrom(x) == x % Modulus

RECURSIVE FPow(_, _)
FPow(a, e) == IF e = 0 THEN 1 ELSE FMul(a, FPow(a, e - 1))

RECURSIVE InversesUpTo(_)
\* the inverses of 1..k by Fermat's little theorem, as a tuple
InversesUpTo(k) == IF k = 0 THEN <<>> ELSE Append(InversesUpTo(k - 1), FPow(k, Modulus - 2))

InverseTable == InversesUpTo(Modulus - 1)

FInv(a) == InverseTable[a]

(***************************************************************************)
(* util                                                                    *)
(***************************************************************************)
Len0(v) == Cardinality(DOMAIN v)

vector_with_length(len) == [i \in 0..(len - 1) |-> 0]

RECURSIVE PowerOfTwoFrom(_, _)
PowerOfTwoFrom(p, x) == IF p >= x THEN p ELSE PowerOfTwoFrom(2 * p, x)

next_power_of_two(x) == PowerOfTwoFrom(1, x)

\* n of the dimension: the size of the order-n evaluation domain
DomainSize(dim) == next_power_of_two(dim + 1)

\* number of data items + number of zero terms + n
proof_length(dim) == dim + 3 + DomainSize(dim)

\* Option and Result values
None == [some |-> FALSE]
Some(x) == [some |-> TRUE, value |-> x]
Err == [ok |-> FALSE]
Ok(x) == [ok |-> TRUE, value |-> x]

\* unpack_proof: None on a length mismatch, else data | f0 g0 h0 | points_h_packed
unpack_proof(share, dim) ==
    IF Len0(share) # proof_length(dim)
    THEN None
    ELSE Some([data |-> [i \in 0..(dim - 1) |-> share[i]],
               f0 |-> share[dim],
               g0 |-> share[dim + 1],
               h0 |-> share[dim + 2],
               points_h_packed |->
                   [j \in 0..(Len0(share) - dim - 4) |-> share[dim + 3 + j]]])

\* util::deserialize: one field element per serialized word
deserialize(body) == [i \in DOMAIN body |-> FieldFrom(body[i])]

\* prng::extract_share_from_seed: len elements determined by the seed
extract_share_from_seed(len, seed) ==
    LET s == IF Len0(seed) = 0 THEN 0 ELSE seed[0]
    IN  [i \in 0..(len - 1) |-> FieldFrom((s + 1) * (i + 2) * (i + 3) + s)]

(***************************************************************************)
(* polynomial                                                              *)
(***************************************************************************)
\* the orders of the evaluation domains of the dimensions of the model
DomainOrders == {DomainSize(d) : d \in 1..(MaxDim + 1)} \cup {2 * DomainSize(d) : d \in 1..(MaxDim + 1)}

\* the primitive root of unity of order m
RootOfOrder(m) == FPow(Generator, (Modulus - 1) \div m)

RECURSIVE Powers(_, _)
\* w^0, ..., w^k as a vector over 0..k
Powers(w, k) == IF k = 0 THEN (0 :> 1) ELSE Powers(w, k - 1) @@ (k :> FPow(w, k))

RECURSIVE TableOver(_, _)
\* the root tables of the orders in the set, plain and inverted
TableOver(orders, invert) ==
    IF orders = {} THEN <<>>
    ELSE LET count == CHOOSE c \in orders : TRUE
             w == IF invert THEN FInv(RootOfOrder(count)) ELSE RootOfOrder(count)
         IN  (count :> Powers(w, count - 1)) @@ TableOver(orders \ {count}, invert)

\* fft_get_roots(count, invert), tabulated once per domain order
RootTables == <<TableOver(DomainOrders, FALSE), TableOver(DomainOrders, TRUE)>>

fft_get_roots(count, invert) == RootTables[IF invert THEN 2 ELSE 1][count]

RECURSIVE Listed(_, _)
\* the first k elements of the vector v, as a tuple
Listed(v, k) == IF k = 0 THEN <<>> ELSE Append(Listed(v, k - 1), v[k - 1])

RECURSIVE Transformed(_, _, _, _, _)
\* the sum over j < i of pts[j] * roots[j * k mod m]
Transformed(pts, roots, k, m, i) ==
    IF i = 0 THEN 0
    ELSE FAdd(Transformed(pts, roots, k, m, i - 1),
              FMul(pts[i], roots[((i - 1) * k) % m]))

\* poly_fft with invert = TRUE: the inverse transform of the points
poly_fft_inverse(points, roots) ==
    LET m == Len0(points)
        ninv == FInv(FieldFrom(m))
        pts == Listed(points, m)
    IN  [k \in 0..(m - 1) |-> FMul(ninv, Transformed(pts, roots, k, m, m))]

RECURSIVE Horner(_, _, _, _)
\* Horner's rule over coeffs[i..len-1]
Horner(coeffs, i, len, x) ==
    IF i = len THEN 0
    ELSE FAdd(coeffs[i], FMul(x, Horner(coeffs, i + 1, len, x)))

\* poly_eval: the value at x of the polynomial with these coefficients
poly_eval(coeffs, x) == Horner(coeffs, 0, Len0(coeffs), x)

\* poly_interpret_eval: interpolate the points over the domain, evaluate at eval_at
poly_interpret_eval(points, roots, eval_at) ==
    poly_eval(poly_fft_inverse(points, roots), eval_at)

\* PolyAuxMemory: the tables of the order-n and the order-2n domain
roots_2n(dim) == fft_get_roots(2 * DomainSize(dim), FALSE)
roots_n_inverted(dim) == fft_get_roots(DomainSize(dim), TRUE)
roots_2n_inverted(dim) == fft_get_roots(2 * DomainSize(dim), TRUE)

Range(f) == {f[i] : i \in DOMAIN f}

(***************************************************************************)
(* server.rs: ValidationMemory and the verification message                *)
(***************************************************************************)
ValidationMemory_new(dim) ==
    LET n == next_power_of_two(dim + 1)
    IN  [points_f |-> vector_with_length(n),
         points_g |-> vector_with_length(n),
         points_h |-> vector_with_length(2 * n)]

VerificationMessage(f_r, g_r, h_r) == [f_r |-> f_r, g_r |-> g_r, h_r |-> h_r]

\* the zero terms added to what the memory holds instead of stored
SetZeroTerms_AddsTo(mem, u) ==
    [mem EXCEPT !.points_f = [@ EXCEPT ![0] = FAdd(@, u.f0)],
                !.points_g = [@ EXCEPT ![0] = FAdd(@, u.g0)],
                !.points_h = [@ EXCEPT ![0] = FAdd(@, u.h0)]]

\* lines 120-122: the zero terms
SetZeroTerms(mem, u) ==
    [mem EXCEPT !.points_f = [@ EXCEPT ![0] = u.f0],
                !.points_g = [@ EXCEPT ![0] = u.g0],
                !.points_h = [@ EXCEPT ![0] = u.h0]]

\* one subtracted by both servers
PointG_BothSubtract(x, is_first_server) == FSub(x, FieldFrom(1))

\* line 130 / 132: the value stored in points_g for data element x
PointG(x, is_first_server) == IF is_first_server THEN FSub(x, FieldFrom(1)) ELSE x

\* lines 125-134: points_f and points_g at index i + 1 for every data index i
SetPointsFG(mem, u, is_first_server) ==
    [mem EXCEPT
        !.points_f = [k \in DOMAIN @ |->
                        IF k - 1 \in DOMAIN u.data THEN u.data[k - 1] ELSE @[k]],
        !.points_g = [k \in DOMAIN @ |->
                        IF k - 1 \in DOMAIN u.data
                        THEN PointG(u.data[k - 1], is_first_server) ELSE @[k]]]

\* a loop bound one step too far
HLoopBound_PastEnd(dim) == 2 * next_power_of_two(dim + 1) + 2

\* line 117: the bound of the points_h loop
HLoopBound(dim) == 2 * next_power_of_two(dim + 1)

\* the loop stepping by one: i = 1, 2, 3, ... < proof_length
HLoopIndices_Every(dim) == 1..(HLoopBound(dim) - 1)

\* lines 137-143: the indices i = 1, 3, 5, ... < proof_length the loop visits
HLoopIndices(dim) == {i \in 1..(HLoopBound(dim) - 1) : i % 2 = 1}

\* lines 139-143: points_h[i] = points_h_packed[j], j = (i - 1) / 2
SetPointsH(mem, u, dim) ==
    LET visited == HLoopIndices(dim)
    IN  [mem EXCEPT
            !.points_h = [k \in DOMAIN @ |->
                            IF k \in visited
                            THEN u.points_h_packed[(k - 1) \div 2] ELSE @[k]]]

\* an index outside its vector: the bounds check of the slice panics
IndexPanics(mem, u, dim) ==
    \/ 0 \notin DOMAIN mem.points_f
    \/ 0 \notin DOMAIN mem.points_g
    \/ 0 \notin DOMAIN mem.points_h
    \/ \E i \in DOMAIN u.data :
          (i + 1) \notin DOMAIN mem.points_f \/ (i + 1) \notin DOMAIN mem.points_g
    \/ \E i \in HLoopIndices(dim) :
          i \notin DOMAIN mem.points_h \/ ((i - 1) \div 2) \notin DOMAIN u.points_h_packed

\* the polynomials evaluated at a fixed point instead of eval_at
Evaluate_FixedPoint(mem, dim, eval_at) ==
    VerificationMessage(
        poly_interpret_eval(mem.points_f, roots_n_inverted(dim), 0),
        poly_interpret_eval(mem.points_g, roots_n_inverted(dim), 0),
        poly_interpret_eval(mem.points_h, roots_2n_inverted(dim), 0))

\* lines 146-168: the three evaluations (the scratch of poly_mem is written
\* and read inside each evaluation only)
Evaluate(mem, dim, eval_at) ==
    VerificationMessage(
        poly_interpret_eval(mem.points_f, roots_n_inverted(dim), eval_at),
        poly_interpret_eval(mem.points_g, roots_n_inverted(dim), eval_at),
        poly_interpret_eval(mem.points_h, roots_2n_inverted(dim), eval_at))

\* lines 109-170
generate_verification_message(dim, eval_at, share, is_first_server, mem) ==
    LET unpacked == unpack_proof(share, dim)
    IN  IF ~unpacked.some
        THEN [result |-> None, mem |-> mem, panic |-> FALSE]
        ELSE IF IndexPanics(mem, unpacked.value, dim)
        THEN [result |-> None, mem |-> mem, panic |-> TRUE]
        ELSE LET u == unpacked.value
                 filled == SetPointsH(
                               SetPointsFG(SetZeroTerms(mem, u), u, is_first_server),
                               u, dim)
             IN  [result |-> Some(Evaluate(filled, dim, eval_at)),
                  mem |-> filled, panic |-> FALSE]

\* h_r taken from the first message alone
is_valid_share_DropsH(v1, v2) ==
    LET f_r == FAdd(v1.f_r, v2.f_r)
        g_r == FAdd(v1.g_r, v2.g_r)
        h_r == v1.h_r
    IN  FMul(f_r, g_r) = h_r

\* lines 172-179
is_valid_share(v1, v2) ==
    LET f_r == FAdd(v1.f_r, v2.f_r)
        g_r == FAdd(v1.g_r, v2.g_r)
        h_r == FAdd(v1.h_r, v2.h_r)
    IN  FMul(f_r, g_r) = h_r

(***************************************************************************)
(* server.rs: Server                                                       *)
(***************************************************************************)
Server_new(dim, is_first_server, private_key) ==
    [dimension |-> dim,
     is_first_server |-> is_first_server,
     accumulator |-> vector_with_length(dim),
     validation_mem |-> ValidationMemory_new(dim),
     private_key |-> private_key]

\* encrypt::decrypt_share: fails on a ciphertext that does not authenticate
\* or that was encrypted to another key
decrypt_share(enc, private_key) ==
    IF enc.auth /\ enc.key = private_key THEN Ok(enc.body) ELSE Err

\* a ciphertext that does not decrypt decoded all the same
deserialize_share_Lenient(self, enc) ==
    Ok(IF self.is_first_server
       THEN deserialize(enc.body)
       ELSE extract_share_from_seed(proof_length(self.dimension), enc.body))

\* lines 46-54
deserialize_share(self, enc) ==
    LET share == decrypt_share(enc, self.private_key)
    IN  IF ~share.ok THEN Err
        ELSE Ok(IF self.is_first_server
                THEN deserialize(share.value)
                ELSE extract_share_from_seed(proof_length(self.dimension), share.value))

\* lines 56-69
Server_generate_verification_message(self, eval_at, enc) ==
    LET share_field == deserialize_share(self, enc)
    IN  IF ~share_field.ok
        THEN [self |-> self, result |-> None, panic |-> FALSE]
        ELSE LET r == generate_verification_message(
                          self.dimension, eval_at, share_field.value,
                          self.is_first_server, self.validation_mem)
             IN  [self |-> [self EXCEPT !.validation_mem = r.mem],
                  result |-> r.result, panic |-> r.panic]

\* the accumulator grown to the length of a longer share
Accumulate_Extends(accumulator, share_field) ==
    [i \in DOMAIN accumulator \cup DOMAIN share_field |->
        IF i \notin DOMAIN accumulator THEN share_field[i]
        ELSE IF i \in DOMAIN share_field
        THEN FAdd(accumulator[i], share_field[i]) ELSE accumulator[i]]

\* the share assigned to the accumulator instead of added
Accumulate_Assigns(accumulator, share_field) ==
    [i \in DOMAIN accumulator |->
        IF i \in DOMAIN share_field THEN share_field[i] ELSE accumulator[i]]

\* lines 81-83: zip stops at the shorter of the accumulator and the share
Accumulate(accumulator, share_field) ==
    [i \in DOMAIN accumulator |->
        IF i \in DOMAIN share_field
        THEN FAdd(accumulator[i], share_field[i]) ELSE accumulator[i]]

\* the share added whatever the validity check says
Server_aggregate_Unchecked(self, enc, v1, v2) ==
    LET share_field == deserialize_share(self, enc)
    IN  IF ~share_field.ok
        THEN [self |-> self, result |-> Err]
        ELSE [self |-> [self EXCEPT !.accumulator = Accumulate(@, share_field.value)],
              result |-> Ok(is_valid_share(v1, v2))]

\* lines 71-87
Server_aggregate(self, enc, v1, v2) ==
    LET share_field == deserialize_share(self, enc)
    IN  IF ~share_field.ok
        THEN [self |-> self, result |-> Err]
        ELSE LET is_valid == is_valid_share(v1, v2)
             IN  [self |-> IF is_valid
                           THEN [self EXCEPT !.accumulator =
                                     Accumulate(@, share_field.value)]
                           ELSE self,
                  result |-> Ok(is_valid)]

\* a new vector returned instead of the accumulator
Server_total_shares_Fresh(self) == vector_with_length(self.dimension)

\* lines 89-91
Server_total_shares(self) == self.accumulator

\* the test of the loop inverted
EvalAtAccepted_Inverted(self, eval_at) == eval_at \in Range(roots_2n(self.dimension))

\* the draw tested against the roots of order n instead of 2n
EvalAtAccepted_OrderN(self, eval_at) ==
    eval_at \notin Range(fft_get_roots(DomainSize(self.dimension), FALSE))

\* line 96: the loop of choose_eval_at leaves with this draw
EvalAtAccepted(self, eval_at) == eval_at \notin Range(roots_2n(self.dimension))

(***************************************************************************)
(* Inputs of the calls: small sets of ciphertexts, messages and draws.     *)
(***************************************************************************)
Key == "sk"

\* serialized words: u32 values, some of them not reduced into the field
WordVec(start, len) == [i \in 0..(len - 1) |-> (start + 7 * i) % (2 * Modulus)]

Ciphertext(body) == [key |-> Key, auth |-> TRUE, body |-> body]

\* well-formed bodies, bodies one element short or long, the empty body
Bodies(dim) ==
    {WordVec(1, proof_length(dim)), WordVec(22, proof_length(dim)),
     WordVec(3, proof_length(dim) - 1), WordVec(26, proof_length(dim) + 1),
     WordVec(9, 1), WordVec(0, 0)}

\* ciphertexts that decrypt, one that does not authenticate, one for another key
EncShares(dim) ==
    {Ciphertext(b) : b \in Bodies(dim)}
        \cup {[key |-> Key, auth |-> FALSE, body |-> WordVec(1, proof_length(dim))],
              [key |-> "pk", auth |-> TRUE, body |-> WordVec(1, proof_length(dim))]}

\* messages a peer may send
PeerMsgs == {VerificationMessage(0, 0, 0), VerificationMessage(1, 1, 1),
             VerificationMessage(2, 3, 5)}

\* the pairs (v1, v2) handed to aggregate: two pairs that pass the check,
\* one of them of two different messages, and one pair that does not
PeerPairs ==
    {<<VerificationMessage(0, 0, 0), VerificationMessage(0, 0, 0)>>,
     <<VerificationMessage(1, 1, 1), VerificationMessage(0, 0, 0)>>,
     <<VerificationMessage(2, 3, 5), VerificationMessage(1, 1, 1)>>}

\* challenge points handed to generate_verification_message
EvalPoints == {1, 3}

\* values of rand::random::<u32>()
Draws == {1, 2, 3, 18, 20}

(***************************************************************************)
(* One Server and its caller.                                              *)
(***************************************************************************)
S == "S"

Init ==
    /\ dimension \in 1..MaxDim
    /\ \E first \in BOOLEAN : srv = [s \in {S} |-> Server_new(dimension, first, Key)]
    /\ pc = [s \in {S} |-> "idle"]
    /\ last = [op |-> "new"]
    /\ calls = 0
    /\ hist = <<>>
    /\ cur = None
    /\ msgs = <<>>
    /\ done = {}
    /\ clients = 0
    /\ truth = <<>>
    /\ validation_mem = None
    /\ point = 0
    /\ phase = "none"
    /\ accepted = {}
    /\ read = [s \in DOMAIN srv |-> None]

Unused == UNCHANGED <<dimension, cur, msgs, done, clients, truth, validation_mem, point, phase, accepted>>

\* Server::generate_verification_message(eval_at, share)
GenerateVerificationMessage(s, eval_at, enc) ==
    /\ pc[s] = "idle"
    /\ calls < MaxCalls
    /\ LET r == Server_generate_verification_message(srv[s], eval_at, enc)
       IN  /\ srv' = [srv EXCEPT ![s] = r.self]
           /\ pc' = [pc EXCEPT ![s] = IF r.panic THEN "panicked" ELSE "idle"]
           /\ last' = [op |-> "generate", server |-> s, eval_at |-> eval_at,
                       enc |-> enc,
                       share |-> deserialize_share(srv[s], enc),
                       before |-> srv[s].accumulator,
                       mem_before |-> srv[s].validation_mem,
                       result |-> r.result, panic |-> r.panic]
    /\ calls' = calls + 1
    /\ UNCHANGED <<hist, read>>
    /\ Unused

\* Server::aggregate(share, v1, v2)
Aggregate(s, enc, v1, v2) ==
    /\ pc[s] = "idle"
    /\ calls < MaxCalls
    /\ LET r == Server_aggregate(srv[s], enc, v1, v2)
       IN  /\ srv' = [srv EXCEPT ![s] = r.self]
           /\ last' = [op |-> "aggregate", server |-> s,
                       enc |-> enc, v1 |-> v1, v2 |-> v2,
                       share |-> deserialize_share(srv[s], enc),
                       valid |-> is_valid_share(v1, v2),
                       before |-> srv[s].accumulator,
                       mem_before |-> srv[s].validation_mem,
                       result |-> r.result]
           /\ hist' = IF r.result = Ok(TRUE)
                      THEN Append(hist, deserialize_share(srv[s], enc).value)
                      ELSE hist
    /\ calls' = calls + 1
    /\ UNCHANGED <<pc, read>>
    /\ Unused

\* Server::total_shares()
TotalShares(s) ==
    /\ pc[s] = "idle"
    /\ calls < MaxCalls
    /\ last' = [op |-> "total_shares", server |-> s,
                result |-> Server_total_shares(srv[s])]
    /\ read' = IF read[s].some THEN read
               ELSE [read EXCEPT ![s] = Some(Server_total_shares(srv[s]))]
    /\ calls' = calls + 1
    /\ UNCHANGED <<srv, pc, hist>>
    /\ Unused

\* Server::choose_eval_at(): entry into the loop
ChooseEvalAtCall(s) ==
    /\ pc[s] = "idle"
    /\ calls < MaxCalls
    /\ pc' = [pc EXCEPT ![s] = "choose_eval_at"]
    /\ last' = [op |-> "choose_eval_at", server |-> s, returned |-> FALSE,
                retried |-> FALSE]
    /\ calls' = calls + 1
    /\ UNCHANGED <<srv, hist, read>>
    /\ Unused

\* one iteration of the loop of choose_eval_at with the draw r
ChooseEvalAtDraw(s, r) ==
    /\ pc[s] = "choose_eval_at"
    /\ LET eval_at == FieldFrom(r)
       IN  IF EvalAtAccepted(srv[s], eval_at)
           THEN /\ pc' = [pc EXCEPT ![s] = "idle"]
                /\ last' = [op |-> "choose_eval_at", server |-> s, returned |-> TRUE,
                            retried |-> last.retried, drawn |-> r, result |-> eval_at]
           ELSE /\ pc' = pc
                /\ last' = [op |-> "choose_eval_at", server |-> s, returned |-> FALSE,
                            retried |-> TRUE, drawn |-> r]
    /\ UNCHANGED <<srv, calls, hist, read>>
    /\ Unused

Next ==
    \/ \E eval_at \in EvalPoints, enc \in EncShares(dimension) :
          GenerateVerificationMessage(S, eval_at, enc)
    \/ \E enc \in EncShares(dimension), pair \in PeerPairs :
          Aggregate(S, enc, pair[1], pair[2])
    \/ TotalShares(S)
    \/ ChooseEvalAtCall(S)
    \/ \E r \in Draws : ChooseEvalAtDraw(S, r)

Spec == Init /\ [][Next]_vars

(***************************************************************************)
(* Claims about one Server (specification Spec).                           *)
(***************************************************************************)
\* the decoded share of the last call has the length unpack_proof accepts
LastShareWellFormed ==
    last.share.ok /\ Len0(last.share.value) = proof_length(dimension)

\* C1: an aggregate call whose share is invalid (the validity check on v1, v2
\* is false) or malformed (decryption fails, or the decoded length differs
\* from proof_length(dimension)) leaves the accumulator as it was before.
C1_NonMutationOnInvalidity ==
    (last.op = "aggregate" /\ (~last.valid \/ ~LastShareWellFormed))
        => srv[last.server].accumulator = last.before

\* C2: when decoding succeeds aggregate returns Ok(b) with b the validity
\* check, and when b is true every coordinate i in 0..dimension-1 becomes its
\* old value plus element i of the decoded share, the length unchanged.
C2_AggregateAddsEveryCoordinate ==
    (last.op = "aggregate" /\ last.share.ok)
        => /\ last.result = Ok(last.valid)
           /\ last.valid =>
                /\ DOMAIN srv[last.server].accumulator = 0..(dimension - 1)
                /\ \A i \in 0..(dimension - 1) :
                      /\ i \in DOMAIN last.share.value
                      /\ srv[last.server].accumulator[i]
                            = FAdd(last.before[i], last.share.value[i])

RECURSIVE ColumnSum(_, _, _)
\* the field sum of element i of the first k shares; a share without an
\* element i adds nothing
ColumnSum(shares, i, k) ==
    IF k = 0 THEN 0
    ELSE FAdd(ColumnSum(shares, i, k - 1),
              IF i \in DOMAIN shares[k] THEN shares[k][i] ELSE 0)

RECURSIVE Replay(_, _, _)
\* the accumulator of a new Server after the first k shares, taken in the
\* order given, were accumulated
Replay(shares, order, k) ==
    IF k = 0 THEN vector_with_length(dimension)
    ELSE Accumulate(Replay(shares, order, k - 1), shares[order[k]])

Orders(k) == {f \in [1..k -> 1..k] : \A a, b \in 1..k : a # b => f[a] # f[b]}

\* C3: the accumulator is the element-wise field sum of the first `dimension`
\* elements of the shares whose aggregate call returned Ok(true), whatever
\* calls were interleaved, and every order of those calls gives the same sum.
C3_Additivity ==
    /\ srv[S].accumulator = [i \in 0..(dimension - 1) |-> ColumnSum(hist, i, Len(hist))]
    /\ \A order \in Orders(Len(hist)) :
          Replay(hist, order, Len(hist)) = srv[S].accumulator

\* two different shares were accumulated
C3_Witness ==
    /\ Len(hist) = 2
    /\ hist[1] # hist[2]
    /\ srv[S].accumulator # vector_with_length(dimension)
    /\ srv[S].accumulator # Replay(hist, <<1>>, 1)

\* C6: no value returned by choose_eval_at is a root of unity of order 2n.
C6_RootExclusion ==
    (last.op = "choose_eval_at" /\ last.returned)
        => FPow(last.result, 2 * DomainSize(dimension)) # 1

\* choose_eval_at returned after a draw that reduces into the field
C6_Witness ==
    /\ last.op = "choose_eval_at"
    /\ last.returned
    /\ last.drawn >= Modulus
    /\ dimension = 2

\* C7: generate_verification_message never indexes outside a vector; it
\* returns nothing when the share length differs from proof_length(dimension)
\* and a triple otherwise.
C7_GenerateNeverPanics ==
    /\ \A s \in DOMAIN pc : pc[s] # "panicked"
    /\ last.op = "generate" =>
          /\ ~last.panic
          /\ last.share.ok =>
                (last.result.some <=> Len0(last.share.value) = proof_length(dimension))
          /\ ~last.share.ok => ~last.result.some

\* a well-formed share went through both loops and a triple came back
C7_Witness ==
    /\ last.op = "generate"
    /\ last.result.some
    /\ dimension = MaxDim
    /\ \E i \in HLoopIndices(dimension) :
          /\ i = Len0(srv[last.server].validation_mem.points_h) - 1
          /\ srv[last.server].validation_mem.points_h[i]
                = last.share.value[proof_length(dimension) - 1]

(***************************************************************************)
(* The client of the submissions: the proof, its tampering, its split.     *)
(***************************************************************************)
\* f0 and g0 of the proofs
ZeroTerms == {<<3, 5>>}

\* seeds of the other server's share
Seeds == {WordVec(2, 1), WordVec(23, 1)}

\* data elements of a submission: the bits and one value that is no bit
DataValues == {0, 1, 2}

DataVectors(dim) == [0..(dim - 1) -> DataValues]

RECURSIVE ProductOver(_, _, _)
\* the product of (x - r) over the first k roots
ProductOver(rootsOf, k, x) ==
    IF k = 0 THEN 1 ELSE FMul(ProductOver(rootsOf, k - 1, x), FSub(x, rootsOf[k]))

\* what a cheating client subtracts from f * g when it computes h:
\* scale * (x - r1) * ... * (x - rk); scale 0 leaves h as it should be
Tampers == {[scale |-> 0, zeros |-> <<>>], [scale |-> 14, zeros |-> <<0, 2, 3>>]}

TamperAt(t, x) == FMul(t.scale, ProductOver(t.zeros, Len(t.zeros), x))

\* the client's point values of f (g when minus_one) over the order-n domain
ClientPoints(dim, data, zero_term, minus_one) ==
    [k \in 0..(DomainSize(dim) - 1) |->
        IF k = 0 THEN zero_term
        ELSE IF k - 1 \in DOMAIN data
             THEN (IF minus_one THEN FSub(data[k - 1], 1) ELSE data[k - 1])
             ELSE 0]

\* the proof of the data: data | f0 g0 h0 | h at the odd points of the order-2n
\* domain, h being f * g less the tampering
ClientProof(dim, data, f0, g0, t) ==
    LET n == DomainSize(dim)
        cf == Listed(poly_fft_inverse(ClientPoints(dim, data, f0, FALSE),
                                      roots_n_inverted(dim)), n)
        cg == Listed(poly_fft_inverse(ClientPoints(dim, data, g0, TRUE),
                                      roots_n_inverted(dim)), n)
        F(x) == Horner([i \in 0..(n - 1) |-> cf[i + 1]], 0, n, x)
        G(x) == Horner([i \in 0..(n - 1) |-> cg[i + 1]], 0, n, x)
        H(x) == FSub(FMul(F(x), G(x)), TamperAt(t, x))
    IN  [i \in 0..(proof_length(dim) - 1) |->
            IF i < dim THEN data[i]
            ELSE IF i = dim THEN f0
            ELSE IF i = dim + 1 THEN g0
            ELSE IF i = dim + 2 THEN H(1)
            ELSE H(roots_2n(dim)[2 * (i - dim - 3) + 1])]

\* one data element incremented by one after the proof was made
Incremented(proof, bump) ==
    [i \in DOMAIN proof |-> IF i = bump THEN FAdd(proof[i], 1) ELSE proof[i]]

\* util::tests::secret_share: the second share is the expansion of the seed,
\* the first the proof less the second
SecretShare(proof, seed) ==
    LET share2 == extract_share_from_seed(Len0(proof), seed)
    IN  [share1 |-> [i \in DOMAIN proof |-> FSub(proof[i], share2[i])],
         share2 |-> share2]

\* the point values of h the shares of a proof add up to: h0, the packed
\* values at the odd indices, nothing at the even ones
ReconstructedH(dim, proof) ==
    [i \in 0..(2 * DomainSize(dim) - 1) |->
        IF i = 0 THEN proof[dim + 2]
        ELSE IF i % 2 = 1 THEN proof[dim + 3 + (i - 1) \div 2]
        ELSE 0]

\* f * g = h as polynomials: both sides have degree below 2n, so they are
\* equal when they agree on the 2n points of the order-2n domain
ProofIdentity(dim, proof) ==
    LET data == [i \in 0..(dim - 1) |-> proof[i]]
        pf == Listed(ClientPoints(dim, data, proof[dim], FALSE), DomainSize(dim))
        pg == Listed(ClientPoints(dim, data, proof[dim + 1], TRUE), DomainSize(dim))
        F(x) == poly_interpret_eval([i \in 0..(DomainSize(dim) - 1) |-> pf[i + 1]],
                                    roots_n_inverted(dim), x)
        G(x) == poly_interpret_eval([i \in 0..(DomainSize(dim) - 1) |-> pg[i + 1]],
                                    roots_n_inverted(dim), x)
    IN  \A i \in 0..(2 * DomainSize(dim) - 1) :
            FMul(F(roots_2n(dim)[i]), G(roots_2n(dim)[i])) = ReconstructedH(dim, proof)[i]

\* the submission of a client: what it sends to each server and what is true
Submission(dim, data, zt, t, bump, seed) ==
    LET made == ClientProof(dim, data, zt[1], zt[2], t)
        proof == IF bump < 0 THEN made ELSE Incremented(made, bump)
        split == SecretShare(proof, seed)
    IN  [some |-> TRUE,
         honest |-> /\ \A i \in DOMAIN data : data[i] \in {0, 1}
                    /\ t.scale = 0
                    /\ bump < 0,
         identity |-> ProofIdentity(dim, proof),
         data |-> [i \in 0..(dim - 1) |-> proof[i]],
         proof |-> Listed(proof, Len0(proof)),
         share1 |-> Listed(split.share1, Len0(proof)),
         seed |-> seed]

\* the shares of a submission as the servers decode them
Share1Of(sub) == [i \in 0..(Len(sub.share1) - 1) |-> sub.share1[i + 1]]
Share2Of(sub) == extract_share_from_seed(Len(sub.share1), sub.seed)

SubmissionsOf(dim) ==
    {Submission(dim, data, zt, t, bump, seed) :
        data \in DataVectors(dim), zt \in ZeroTerms, t \in Tampers,
        bump \in {-1, 0}, seed \in Seeds}

\* the submissions of every dimension, made once
SubmissionTable == [dim \in 1..MaxDim |-> SubmissionsOf(dim)]

Submissions(dim) == SubmissionTable[dim]

(***************************************************************************)
(* The validation test: both roles of one submission through one           *)
(* ValidationMemory, at one challenge point after the other.               *)
(***************************************************************************)
NoMsgs == [first |-> None, other |-> None]

InitVerify ==
    /\ dimension \in 1..MaxDim
    /\ srv = <<>>
    /\ pc = <<>>
    /\ last = [op |-> "new"]
    /\ calls = 0
    /\ hist = <<>>
    /\ cur = None
    /\ msgs = NoMsgs
    /\ done = {}
    /\ clients = 0
    /\ truth = <<>>
    /\ validation_mem = ValidationMemory_new(dimension)
    /\ point = 0
    /\ phase = "new"
    /\ accepted = {}
    /\ read = [s \in DOMAIN srv |-> None]

UnusedVerify == UNCHANGED <<dimension, srv, pc, last, calls, hist, done, clients, truth, read>>

\* lines 187-198: a proof is made and split, the memory allocated
Split(sub) ==
    /\ phase = "new" \/ (phase = "checked" /\ point + 1 = Modulus)
    /\ cur' = sub
    /\ validation_mem' = ValidationMemory_new(dimension)
    /\ msgs' = NoMsgs
    /\ point' = 0
    /\ phase' = "chosen"
    /\ accepted' = {}
    /\ UnusedVerify

\* line 196: the next challenge point
NextPoint ==
    /\ phase = "checked"
    /\ point + 1 < Modulus
    /\ point' = point + 1
    /\ msgs' = NoMsgs
    /\ phase' = "chosen"
    /\ UNCHANGED <<cur, validation_mem, accepted>>
    /\ UnusedVerify

\* lines 200-203: the message of one role
TestGenerate(role) ==
    /\ phase = "chosen"
    /\ ~msgs[role].some
    /\ LET r == generate_verification_message(
                    dimension, point,
                    IF role = "first" THEN Share1Of(cur) ELSE Share2Of(cur),
                    role = "first", validation_mem)
       IN  /\ msgs' = [msgs EXCEPT ![role] = r.result]
           /\ validation_mem' = r.mem
    /\ UNCHANGED <<cur, point, phase, accepted>>
    /\ UnusedVerify

\* line 204: the validity check of the two messages
TestCheck ==
    /\ phase = "chosen"
    /\ msgs.first.some /\ msgs.other.some
    /\ accepted' = IF is_valid_share(msgs.first.value, msgs.other.value)
                   THEN accepted \cup {point} ELSE accepted
    /\ phase' = "checked"
    /\ UNCHANGED <<cur, msgs, validation_mem, point>>
    /\ UnusedVerify

NextVerify ==
    \/ \E sub \in Submissions(dimension) : Split(sub)
    \/ NextPoint
    \/ \E role \in {"first", "other"} : TestGenerate(role)
    \/ TestCheck

SpecVerify == InitVerify /\ [][NextVerify]_vars

(***************************************************************************)
(* Claims about the verification of one submission (SpecVerify).           *)
(***************************************************************************)
\* the roots of unity of order 2n, by their defining equation
IsRoot2n(x) == FPow(x, 2 * DomainSize(dimension)) = 1

\* the challenge points off the roots at which the submission passed
NonRootAccepted == {x \in accepted : ~IsRoot2n(x)}

\* C4: the two messages of an honest, additively split proof pass the check
\* at every challenge point outside the order-2n roots, the two calls and the
\* earlier points' calls sharing one ValidationMemory.
C4_Completeness ==
    (cur.some /\ cur.honest /\ phase = "checked" /\ ~IsRoot2n(point))
        => point \in accepted

\* an honest proof of data that is not all zero passed at a point off the roots,
\* in a memory earlier calls had written
C4_Witness ==
    /\ cur.some /\ cur.honest
    /\ \E i \in DOMAIN cur.data : cur.data[i] = 1
    /\ phase = "checked"
    /\ point > 4
    /\ ~IsRoot2n(point)
    /\ point \in accepted

\* C5 as stated: when f * g # h, at most 2 * degree challenge points off the
\* roots pass the check, degree being the degree n - 1 of f and g.
C5_AtMostTwiceDegree ==
    (cur.some /\ ~cur.identity)
        => Cardinality(NonRootAccepted) <= 2 * (DomainSize(dimension) - 1)

\* C5 amended: when f * g # h, at most 2n - 1 challenge points off the roots
\* pass the check: h is interpolated from 2n points, so f * g - h can have
\* degree 2n - 1, one more than twice the degree of f and g.
C5_Soundness ==
    (cur.some /\ ~cur.identity)
        => Cardinality(NonRootAccepted) <= 2 * DomainSize(dimension) - 1

\* every challenge point was tried on a proof with f * g # h, and it passed at
\* some of them but not at all of them
C5_Witness ==
    /\ cur.some /\ ~cur.identity
    /\ phase = "checked"
    /\ point = Modulus - 1
    /\ NonRootAccepted # {}
    /\ \E x \in Field : ~IsRoot2n(x) /\ x \notin accepted

(***************************************************************************)
(* The first server and the other server take the same clients.            *)
(***************************************************************************)
OtherKey == "sk2"

Roles == {"first", "other"}

\* the serialized share: one word per field element
serialize(share) == [i \in DOMAIN share |-> share[i]]

\* the data vectors of the clients: bits, and one vector that is not of bits
ProtoData(dim) ==
    {[i \in 0..(dim - 1) |-> 0], [i \in 0..(dim - 1) |-> 1],
     [i \in 0..(dim - 1) |-> IF i = 0 THEN 1 ELSE 0],
     [i \in 0..(dim - 1) |-> IF i = 0 THEN 2 ELSE 1]}

ProtoSubmissionTable ==
    [dim \in 1..MaxDim |->
        {Submission(dim, data, zt, [scale |-> 0, zeros |-> <<>>], -1, seed) :
            data \in ProtoData(dim), zt \in ZeroTerms, seed \in Seeds}]

\* the challenge points the two servers agree on
ProtoEvalPoints == {3, 5}

\* what the client sends to each server; garbled, the first server's
\* ciphertext does not authenticate
Sent(sub, garbled) ==
    [first |-> [key |-> Key, auth |-> ~garbled, body |-> serialize(Share1Of(sub))],
     other |-> [key |-> OtherKey, auth |-> TRUE, body |-> sub.seed]]

InitProto ==
    /\ dimension \in 1..MaxDim
    /\ srv = [s \in Roles |->
                Server_new(dimension, s = "first", IF s = "first" THEN Key ELSE OtherKey)]
    /\ pc = [s \in Roles |-> "idle"]
    /\ last = [op |-> "new"]
    /\ calls = 0
    /\ hist = <<>>
    /\ cur = None
    /\ msgs = NoMsgs
    /\ done = {}
    /\ clients = 0
    /\ truth = <<>>
    /\ validation_mem = None
    /\ point = 0
    /\ phase = "none"
    /\ accepted = {}
    /\ read = [s \in DOMAIN srv |-> None]

UnusedProto == UNCHANGED <<dimension, calls, hist, validation_mem, point, phase, accepted, read>>

\* the submission in flight needs no further call
Settled ==
    \/ ~cur.some
    \/ done = Roles
    \/ (\A s \in Roles : pc[s] = "generated") /\ (\E s \in Roles : ~msgs[s].some)

\* a client submits a share to each server; the servers agree on eval_at
Submit(sub, eval_at, garbled) ==
    /\ Settled
    /\ clients < MaxClients
    /\ cur' = [some |-> TRUE, honest |-> sub.honest, data |-> sub.data,
               share1 |-> sub.share1, seed |-> sub.seed,
               eval_at |-> eval_at, sent |-> Sent(sub, garbled)]
    /\ last' = [op |-> "submit"]
    /\ msgs' = NoMsgs
    /\ done' = {}
    /\ pc' = [s \in Roles |-> "idle"]
    /\ clients' = clients + 1
    /\ UNCHANGED <<srv, truth>>
    /\ UnusedProto

\* server s calls generate_verification_message on its share
ProtoGenerate(s) ==
    /\ cur.some
    /\ pc[s] = "idle"
    /\ LET r == Server_generate_verification_message(srv[s], cur.eval_at, cur.sent[s])
       IN  /\ srv' = [srv EXCEPT ![s] = r.self]
           /\ msgs' = [msgs EXCEPT ![s] = r.result]
           /\ pc' = [pc EXCEPT ![s] = IF r.panic THEN "panicked" ELSE "generated"]
           /\ last' = [op |-> "generate", server |-> s, result |-> r.result]
    /\ UNCHANGED <<cur, done, clients, truth>>
    /\ UnusedProto

\* the messages exchanged, server s calls aggregate on its share
ProtoAggregate(s) ==
    /\ cur.some
    /\ \A t \in Roles : pc[t] = "generated" /\ msgs[t].some
    /\ s \notin done
    /\ LET r == Server_aggregate(srv[s], cur.sent[s], msgs.first.value, msgs.other.value)
       IN  /\ srv' = [srv EXCEPT ![s] = r.self]
           /\ last' = [op |-> "aggregate", server |-> s, result |-> r.result]
           /\ truth' = IF done \cup {s} = Roles /\ r.result = Ok(TRUE)
                       THEN Append(truth, cur.data) ELSE truth
    /\ done' = done \cup {s}
    /\ UNCHANGED <<cur, msgs, pc, clients>>
    /\ UnusedProto

NextProto ==
    \/ \E sub \in ProtoSubmissionTable[dimension], eval_at \in ProtoEvalPoints,
          garbled \in BOOLEAN : Submit(sub, eval_at, garbled)
    \/ \E s \in Roles : ProtoGenerate(s)
    \/ \E s \in Roles : ProtoAggregate(s)

SpecProto == InitProto /\ [][NextProto]_vars

(***************************************************************************)
(* Claims about the two servers (SpecProto).                               *)
(***************************************************************************)
VecAdd(a, b) == [i \in DOMAIN a |-> FAdd(a[i], b[i])]

\* C9: once both servers have aggregated a client with the exchanged pair of
\* messages, the element-wise sum of the two accumulators is the element-wise
\* sum of the true data vectors of the clients whose check returned true;
\* a client whose check returned false adds nothing on either server.
C9_EndToEndAggregate ==
    Cardinality(done) # 1
        => VecAdd(srv["first"].accumulator, srv["other"].accumulator)
              = [i \in 0..(dimension - 1) |-> ColumnSum(truth, i, Len(truth))]

\* two clients were taken, one found valid and one not
C9_Witness ==
    /\ clients = 2
    /\ done = Roles
    /\ Len(truth) = 1
    /\ \E i \in DOMAIN truth[1] : truth[1][i] # 0
    /\ srv["first"].accumulator # vector_with_length(dimension)

\* the share server s decodes for the submission in flight
DecodedBy(s) == IF s = "first" THEN Share1Of(cur) ELSE Share2Of(cur)

\* C10: after generate_verification_message unpacked a share, points_f[i] is
\* data[i-1] for i in 1..len(data), points_g[i] is data[i-1] - 1 on the first
\* server and data[i-1] on the other, index 0 holds f0 and g0 unadjusted; for
\* the two shares of a client the two points_g arrays add up to the sum of the
\* two points_f arrays less exactly one at each index 1..len(data).
C10_RoleAsymmetry ==
    /\ \A s \in Roles :
          (cur.some /\ pc[s] = "generated" /\ msgs[s].some) =>
              LET m == srv[s].validation_mem
                  share == DecodedBy(s)
              IN  /\ m.points_f[0] = share[dimension]
                  /\ m.points_g[0] = share[dimension + 1]
                  /\ \A i \in 1..dimension :
                        /\ m.points_f[i] = share[i - 1]
                        /\ m.points_g[i] = IF s = "first"
                                           THEN FSub(share[i - 1], 1) ELSE share[i - 1]
    /\ (cur.some /\ \A s \in Roles : pc[s] = "generated" /\ msgs[s].some) =>
          \A i \in 1..dimension :
              FAdd(srv["first"].validation_mem.points_g[i],
                   srv["other"].validation_mem.points_g[i])
                = FSub(FAdd(srv["first"].validation_mem.points_f[i],
                            srv["other"].validation_mem.points_f[i]), 1)

\* both servers unpacked their share of a second client
C10_Witness ==
    /\ cur.some
    /\ clients = 2
    /\ dimension = MaxDim
    /\ \A s \in Roles : pc[s] = "generated" /\ msgs[s].some
    /\ srv["first"].validation_mem.points_f # srv["other"].validation_mem.points_f

(***************************************************************************)
(* Workers: the submissions are divided among Servers of one role; a       *)
(* single Server of that role takes them all, one after the other.         *)
(***************************************************************************)
Workers == {"w1", "w2"}

Single == "single"

RoleName(is_first_server) == IF is_first_server THEN "first" ELSE "other"

\* the message the peer of the other role generates for the submission
PeerMessage(dim, sub, eval_at, is_first_server) ==
    generate_verification_message(
        dim, eval_at,
        IF is_first_server THEN Share2Of(sub) ELSE Share1Of(sub),
        ~is_first_server, ValidationMemory_new(dim)).result.value

\* the challenge point of the workers' submissions
MergeEvalPoints == {3}

\* what a worker of the role is handed: its ciphertext, intact or garbled,
\* the challenge point and the peer's message
JobsOf(dim, is_first_server) ==
    {[some |-> TRUE,
      enc |-> Sent(sub, garbled)[RoleName(is_first_server)],
      eval_at |-> eval_at,
      peer |-> PeerMessage(dim, sub, eval_at, is_first_server)] :
        sub \in {x \in ProtoSubmissionTable[dim] : x.seed = WordVec(2, 1)},
        eval_at \in MergeEvalPoints, garbled \in BOOLEAN}

\* the jobs of every dimension and role, made once
JobTable == [dim \in 1..MaxDim |-> [first \in BOOLEAN |-> JobsOf(dim, first)]]

\* aggregate with the two messages in the order first server, other server
AggregateOwn(self, enc, own, peer) ==
    IF self.is_first_server
    THEN Server_aggregate(self, enc, own, peer)
    ELSE Server_aggregate(self, enc, peer, own)

\* the verify and aggregate pair of one submission on one Server; a
\* submission without a message is dropped
Process(self, job) ==
    LET g == Server_generate_verification_message(self, job.eval_at, job.enc)
    IN  IF g.result.some
        THEN AggregateOwn(g.self, job.enc, g.result.value, job.peer).self
        ELSE g.self

InitMerge ==
    /\ dimension \in 1..MaxDim
    /\ \E first \in BOOLEAN :
          srv = [s \in Workers \cup {Single} |->
                    Server_new(dimension, first, IF first THEN Key ELSE OtherKey)]
    /\ pc = [s \in Workers |-> "idle"]
    /\ last = [op |-> "new"]
    /\ calls = 0
    /\ hist = <<>>
    /\ cur = [s \in Workers |-> None]
    /\ msgs = [s \in Workers |-> None]
    /\ done = {}
    /\ clients = 0
    /\ truth = <<>>
    /\ validation_mem = None
    /\ point = 0
    /\ phase = "none"
    /\ accepted = {}
    /\ read = [s \in DOMAIN srv |-> None]

UnusedMerge ==
    UNCHANGED <<dimension, calls, hist, done, truth, validation_mem, point, phase, accepted,
                read>>

\* a submission is handed to worker w
Take(w, job) ==
    /\ pc[w] = "idle"
    /\ clients < MaxClients
    /\ cur' = [cur EXCEPT ![w] = job]
    /\ pc' = [pc EXCEPT ![w] = "taken"]
    /\ msgs' = [msgs EXCEPT ![w] = None]
    /\ clients' = clients + 1
    /\ last' = [op |-> "take", server |-> w]
    /\ UNCHANGED srv
    /\ UnusedMerge

\* worker w calls generate_verification_message on its submission
WorkerGenerate(w) ==
    /\ pc[w] = "taken"
    /\ LET r == Server_generate_verification_message(srv[w], cur[w].eval_at, cur[w].enc)
       IN  /\ srv' = [srv EXCEPT ![w] = r.self]
           /\ msgs' = [msgs EXCEPT ![w] = r.result]
           /\ last' = [op |-> "generate", server |-> w, result |-> r.result]
    /\ pc' = [pc EXCEPT ![w] = "generated"]
    /\ UNCHANGED <<cur, clients>>
    /\ UnusedMerge

\* worker w calls aggregate on its submission, or drops a submission that has
\* no message; the single Server takes the same submission
WorkerAggregate(w) ==
    /\ pc[w] = "generated"
    /\ LET r == AggregateOwn(srv[w], cur[w].enc, msgs[w].value, cur[w].peer)
       IN  /\ srv' = [srv EXCEPT
                        ![w] = IF msgs[w].some THEN r.self ELSE @,
                        ![Single] = Process(@, cur[w])]
           /\ last' = [op |-> "aggregate", server |-> w,
                       result |-> IF msgs[w].some THEN r.result ELSE None]
    /\ pc' = [pc EXCEPT ![w] = "idle"]
    /\ cur' = [cur EXCEPT ![w] = None]
    /\ msgs' = [msgs EXCEPT ![w] = None]
    /\ UNCHANGED clients
    /\ UnusedMerge

NextMerge ==
    \/ \E w \in Workers :
          \E job \in JobTable[dimension][srv[w].is_first_server] : Take(w, job)
    \/ \E w \in Workers : WorkerGenerate(w)
    \/ \E w \in Workers : WorkerAggregate(w)

SpecMerge == InitMerge /\ [][NextMerge]_vars

\* C8: whatever the division of the submissions among the workers and the
\* interleaving of their calls, the element-wise sum of the workers'
\* accumulators is the accumulator of the single Server that took them all.
C8_WorkerMerge ==
    VecAdd(srv["w1"].accumulator, srv["w2"].accumulator) = srv[Single].accumulator

\* each worker accumulated a submission of its own
C8_Witness ==
    /\ srv["w1"].accumulator # vector_with_length(dimension)
    /\ srv["w2"].accumulator # vector_with_length(dimension)
    /\ srv["w1"].accumulator # srv["w2"].accumulator
    /\ \A w \in Workers : pc[w] = "idle"

(***************************************************************************)
(* Claims about the reuse of one Server's memory (specification Spec).     *)
(***************************************************************************)
\* C11: in every generate_verification_message call that returns a triple,
\* whatever calls used the ValidationMemory before, points_h holds h0 at
\* index 0, h_packed[k] at index 2k+1 for k in 0..n-1 and zero at every even
\* index 2, 4, ..., 2n-2 when h is evaluated.
C11_LayoutOfH ==
    (last.op = "generate" /\ last.result.some) =>
        LET h == srv[last.server].validation_mem.points_h
            u == unpack_proof(last.share.value, dimension).value
            n == DomainSize(dimension)
        IN  /\ h[0] = u.h0
            /\ \A k \in 0..(n - 1) : h[2 * k + 1] = u.points_h_packed[k]
            /\ \A k \in 1..(n - 1) : h[2 * k] = 0

\* a triple came back from a memory that held the h of another share
C11_Witness ==
    /\ last.op = "generate"
    /\ last.result.some
    /\ dimension = MaxDim
    /\ last.mem_before.points_h # ValidationMemory_new(dimension).points_h
    /\ last.mem_before.points_h # srv[last.server].validation_mem.points_h

\* the call of the last step made on a newly allocated ValidationMemory
OnFreshMemory ==
    generate_verification_message(
        dimension, last.eval_at, last.share.value,
        srv[last.server].is_first_server, ValidationMemory_new(dimension))

\* C12: the triple generate_verification_message returns is the one it returns
\* on a newly allocated ValidationMemory, whatever calls used the memory
\* before, and the point arrays the evaluation read are those of that call.
C12_HistoryIndependence ==
    (last.op = "generate" /\ last.share.ok) =>
        /\ last.result = OnFreshMemory.result
        /\ last.result.some =>
              srv[last.server].validation_mem = OnFreshMemory.mem

\* a triple came back from a memory that an earlier call with another share
\* had written
C12_Witness ==
    /\ last.op = "generate"
    /\ last.result.some
    /\ last.mem_before # ValidationMemory_new(dimension)
    /\ last.mem_before.points_f # srv[last.server].validation_mem.points_f
    /\ last.mem_before.points_g # srv[last.server].validation_mem.points_g

(***************************************************************************)
(* Claims about what each call leaves alone (specification Spec).          *)
(***************************************************************************)
\* the ciphertext of the last call does not decrypt under the Server's key
LastDecryptFailed == ~decrypt_share(last.enc, srv[last.server].private_key).ok

\* C13: when decryption of the encrypted share fails,
\* Server::generate_verification_message returns nothing and leaves the
\* ValidationMemory and the accumulator as they were, and Server::aggregate
\* returns the decryption error, not a boolean, whatever the validity check
\* on v1, v2 says, and leaves the accumulator as it was; the call is over
\* with that one attempt.
C13_DecodeFailure ==
    /\ (last.op = "generate" /\ LastDecryptFailed) =>
          /\ last.result = None
          /\ ~last.panic
          /\ pc[last.server] = "idle"
          /\ srv[last.server].validation_mem = last.mem_before
          /\ srv[last.server].accumulator = last.before
    /\ (last.op = "aggregate" /\ LastDecryptFailed) =>
          /\ last.result = Err
          /\ pc[last.server] = "idle"
          /\ srv[last.server].accumulator = last.before
          /\ srv[last.server].validation_mem = last.mem_before

\* aggregate was given a ciphertext that does not decrypt and a pair of
\* messages that pass the check, on a Server that had accumulated a share
C13_Witness ==
    /\ last.op = "aggregate"
    /\ LastDecryptFailed
    /\ is_valid_share(last.v1, last.v2)
    /\ last.before # vector_with_length(dimension)

\* C14: generate_verification_message, choose_eval_at and total_shares leave
\* the accumulator unchanged, total_shares returns exactly the accumulator,
\* and aggregate leaves the ValidationMemory unchanged.
C14_Frame ==
    [][/\ last'.op \in {"generate", "choose_eval_at", "total_shares"} =>
             \A s \in DOMAIN srv : srv'[s].accumulator = srv[s].accumulator
       /\ last'.op = "total_shares" =>
             last'.result = srv[last'.server].accumulator
       /\ last'.op = "aggregate" =>
             \A s \in DOMAIN srv : srv'[s].validation_mem = srv[s].validation_mem]_vars

\* total_shares read an accumulator that holds a share
C14_Witness ==
    /\ last.op = "total_shares"
    /\ last.result # vector_with_length(dimension)
    /\ last.result = srv[last.server].accumulator

\* C15: a new Server has an accumulator of length dimension, all zero, and
\* after any calls the accumulator has length dimension, points_f and
\* points_g length n and points_h length 2n, n = nextPowerOfTwo(dimension + 1).
C15_Shape ==
    \A s \in DOMAIN srv :
        LET n == DomainSize(dimension)
        IN  /\ DOMAIN srv[s].accumulator = 0..(dimension - 1)
            /\ DOMAIN srv[s].validation_mem.points_f = 0..(n - 1)
            /\ DOMAIN srv[s].validation_mem.points_g = 0..(n - 1)
            /\ DOMAIN srv[s].validation_mem.points_h = 0..(2 * n - 1)
            /\ last.op = "new" =>
                  \A i \in 0..(dimension - 1) : srv[s].accumulator[i] = 0

\* a share longer than the accumulator was accumulated after a
\* generate_verification_message call had written the memory
C15_Witness ==
    /\ last.op = "aggregate"
    /\ last.result = Ok(TRUE)
    /\ Len0(last.share.value) > dimension
    /\ srv[last.server].accumulator # last.before
    /\ last.mem_before # ValidationMemory_new(dimension)

(***************************************************************************)
(* Claims about the life of one Server (specification Spec).               *)
(***************************************************************************)
\* C17 as stated: once the accumulator has been read through total_shares,
\* no later operation on the Server changes the accumulator.
C17_FinalizedReadOnly ==
    \A s \in DOMAIN srv : read[s].some => srv[s].accumulator = read[s].value

\* C17 amended: a new Server has a zero accumulator; once the accumulator has
\* been read through total_shares, generate_verification_message,
\* choose_eval_at and total_shares leave it unchanged, and the only operation
\* that changes it is an aggregate call that returns Ok(true), which adds its
\* share as before the read.
C17_Lifecycle ==
    [][\A s \in DOMAIN srv :
          read'[s].some =>
              \/ srv'[s].accumulator = srv[s].accumulator
              \/ /\ read[s].some
                 /\ last'.op = "aggregate"
                 /\ last'.server = s
                 /\ last'.result = Ok(TRUE)
                 /\ srv'[s].accumulator
                       = Accumulate(srv[s].accumulator, last'.share.value)]_vars

\* an aggregate call after total_shares returned Ok(true) and added its share
C17_Witness ==
    /\ last.op = "aggregate"
    /\ last.result = Ok(TRUE)
    /\ read[last.server].some
    /\ srv[last.server].accumulator # read[last.server].value

\* the decision of a new Server of the given role that aggregates a share of
\* its own with the pair of messages of the last call in the other order
PeerDecision(first) ==
    Server_aggregate(Server_new(dimension, first, Key),
                     Ciphertext(WordVec(22, proof_length(dimension))),
                     last.v2, last.v1).result

\* C18: the accept/reject decision of an aggregate call that decodes its
\* share depends on the six field elements of the two messages only: a Server
\* of either role, in another state, given the same pair in the other
\* argument order, reaches the same decision.
C18_Agreement ==
    (last.op = "aggregate" /\ last.share.ok) =>
        /\ \A first \in BOOLEAN : PeerDecision(first) = last.result
        /\ last.result = Ok(is_valid_share(last.v2, last.v1))

\* a Server that had accumulated a share accepted a pair of two different
\* messages
C18_Witness ==
    /\ last.op = "aggregate"
    /\ last.result = Ok(TRUE)
    /\ last.v1 # last.v2
    /\ last.before # vector_with_length(dimension)
    /\ dimension = MaxDim

(***************************************************************************)
(* One Server with a fair random source: rand::random does not return      *)
(* members of the root set forever.                                        *)
(***************************************************************************)
\* the draw that ends the loop of choose_eval_at
ChooseEvalAtLeaves(s) ==
    \E r \in Draws : EvalAtAccepted(srv[s], FieldFrom(r)) /\ ChooseEvalAtDraw(s, r)

SpecFair == Init /\ [][Next]_vars /\ WF_vars(ChooseEvalAtLeaves(S))

\* C16: under a fair random source the loop of choose_eval_at is left with a
\* value; a draw in the order-2n root set is followed by another draw, and
\* the first draw outside it is the value returned.
C16_ChooseEvalAtTerminates ==
    /\ (pc[S] = "choose_eval_at")
          ~> (pc[S] = "idle" /\ last.op = "choose_eval_at" /\ last.returned)
    /\ [][pc[S] = "choose_eval_at" =>
             IF FPow(FieldFrom(last'.drawn), 2 * DomainSize(dimension)) = 1
             THEN pc'[S] = "choose_eval_at" /\ ~last'.returned
             ELSE /\ pc'[S] = "idle"
                  /\ last'.returned
                  /\ last'.result = FieldFrom(last'.drawn)]_vars

\* choose_eval_at returned after a draw in the root set and a further draw
C16_Witness ==
    /\ last.op = "choose_eval_at"
    /\ last.returned
    /\ last.retried
    /\ pc[S] = "idle"

====
